---- MODULE Spec2Model ----
(***************************************************************************)
(* Model of src/mysql/mysql_packet_parser.py (class MySQLPacketParser).    *)
(*                                                                         *)
(* Bytes are integers 0..255, a bytes object is a sequence of bytes, a     *)
(* str is a sequence of Unicode code points.  Python indices are 0-based;  *)
(* At and Slice translate them.  Optional values are Some(v) or None.      *)
(***************************************************************************)
EXTENDS Integers, Sequences, FiniteSets, TLC

VARIABLES
  pc,           \* position of the program (or of the call under study)
  packets,      \* self._packets
  idx,          \* 1-based index of the next packet of the for loop (line 159)
  connections,  \* self._connections, in insertion order
  report,       \* lines built by generate_report
  data,         \* bytes argument of the function under study
  offset,       \* offset argument of the function under study
  frames_in,    \* frames a buffer was built from (framing input)
  result        \* value returned by the function under study

vars == <<pc, packets, idx, connections, report, data, offset, frames_in, result>>

----------------------------------------------------------------------------
(* Python values *)

None == [some |-> FALSE]

Some(v) == [some |-> TRUE, val |-> v]

Min(a, b) == IF a <= b THEN a ELSE b

\* Body(v): a local variable that holds the value of v, computed once
Let(v, Body(_)) == CHOOSE y \in {Body(x) : x \in {v}} : TRUE

\* data[i], 0-based
At(s, i) == s[i + 1]

\* data[a:b], 0-based, end exclusive, clamped to the buffer as Python does
Slice(s, a, b) == IF a >= Min(b, Len(s)) THEN <<>> ELSE SubSeq(s, a + 1, Min(b, Len(s)))

\* data[a:]
SliceFrom(s, a) == Slice(s, a, Len(s))

RECURSIVE LittleEndian(_)
\* struct.unpack('<H' | '<I' | '<Q', b)[0]
LittleEndian(b) == IF b = <<>> THEN 0 ELSE Head(b) + 256 * LittleEndian(Tail(b))

RECURSIVE Flatten(_)
\* concatenation of a sequence of sequences
Flatten(ss) == IF ss = <<>> THEN <<>> ELSE Head(ss) \o Flatten(Tail(ss))

\* sequences over S of length 0..n
SeqsUpTo(S, n) == UNION {[1..k -> S] : k \in 0..n}

----------------------------------------------------------------------------
(* Protocol constants, lines 46-62 *)

COM_QUIT == 1
COM_INIT_DB == 2
COM_QUERY == 3
COM_PING == 14
COM_STMT_PREPARE == 22
COM_STMT_EXECUTE == 23
COM_STMT_CLOSE == 25
OK_PACKET == 0
EOF_PACKET == 254
ERROR_PACKET == 255
NULL_VALUE == 251

\* __init__ default, line 81
mysql_port == 3306

----------------------------------------------------------------------------
(* Frame splitter, _parse_mysql_packets, lines 206-231 *)

\* line 215: while pos + 4 <= len(data)
HeaderFits(d, pos) == pos + 4 <= Len(d)

\* line 220 without the zero-length test
FrameStopsNoZero(d, pos, length) == pos + 4 + length > Len(d)
\* line 220: if length == 0 or pos + 4 + length > len(data): break
FrameStops(d, pos, length) == length = 0 \/ pos + 4 + length > Len(d)

\* line 217 read big-endian
FrameLengthBigEndian(d, pos) ==
  LittleEndian(<<0>> \o <<At(d, pos + 2), At(d, pos + 1), At(d, pos)>>)
\* line 217: struct.unpack('<I', data[pos:pos+3] + b'\x00')[0]
FrameLength(d, pos) == LittleEndian(Slice(d, pos, pos + 3) \o <<0>>)

RECURSIVE ParseLoop(_, _, _)
\* the while loop of lines 215-229; pkts is the list built so far
ParseLoop(d, pos, pkts) ==
  IF ~HeaderFits(d, pos) THEN pkts
  ELSE LET length == FrameLength(d, pos)
           sequence == At(d, pos + 3)
       IN IF FrameStops(d, pos, length) THEN pkts
          ELSE ParseLoop(d, pos + 4 + length,
                 Append(pkts, [length |-> length, sequence |-> sequence,
                               payload |-> Slice(d, pos + 4, pos + 4 + length)]))

_parse_mysql_packets(d) == ParseLoop(d, 0, <<>>)

RECURSIVE ParseReads(_, _)
\* highest 0-based index the loop of lines 215-229 subscripts or slices
\* (-1 when it reads nothing): data[pos:pos+3] and data[pos+3] at each
\* header, data[pos+4:pos+4+length] for each frame it keeps
ParseReads(d, pos) ==
  IF ~HeaderFits(d, pos) THEN -1
  ELSE LET length == FrameLength(d, pos)
       IN IF FrameStops(d, pos, length) THEN pos + 3
          ELSE LET rest == ParseReads(d, pos + 4 + length)
               IN IF rest > pos + 3 + length THEN rest ELSE pos + 3 + length

RECURSIVE ParseEnd(_, _)
\* value of pos when the loop of lines 215-229 ends
ParseEnd(d, pos) ==
  IF ~HeaderFits(d, pos) THEN pos
  ELSE LET length == FrameLength(d, pos)
       IN IF FrameStops(d, pos, length) THEN pos
          ELSE ParseEnd(d, pos + 4 + length)

----------------------------------------------------------------------------
(* Length-encoded codec, lines 233-276 *)

\* line 248 with the NULL marker taken as a one-byte value
IsOneByteValueInclusive(first) == first <= 251
\* line 248: if first < 0xFB
IsOneByteValue(first) == first < 251

\* _read_length_encoded_int, lines 233-257
_read_length_encoded_int(d, off) ==
  IF off >= Len(d) THEN <<None, off>>
  ELSE LET first == At(d, off)
       IN IF IsOneByteValue(first) THEN <<Some(first), off + 1>>
          ELSE IF first = 252 /\ off + 3 <= Len(d)
            THEN <<Some(LittleEndian(Slice(d, off + 1, off + 3))), off + 3>>
          ELSE IF first = 253 /\ off + 4 <= Len(d)
            THEN <<Some(LittleEndian(Slice(d, off + 1, off + 4) \o <<0>>)), off + 4>>
          ELSE IF first = 254 /\ off + 9 <= Len(d)
            THEN <<Some(LittleEndian(Slice(d, off + 1, off + 9))), off + 9>>
          ELSE <<None, off>>

----------------------------------------------------------------------------
(* Python str operations the decoders use *)

REPLACEMENT == 65533

IsCont(c) == c >= 128 /\ c <= 191

\* lowest and highest second byte a UTF-8 lead byte of a 3- or 4-byte
\* sequence admits
SecondLow(c0) == IF c0 = 224 THEN 160 ELSE IF c0 = 240 THEN 144 ELSE 128
SecondHigh(c0) == IF c0 = 237 THEN 159 ELSE IF c0 = 244 THEN 143 ELSE 191

\* one step of bytes.decode('utf-8'): <<decoded, consumed>> at index i, bad
\* being what an invalid or truncated sequence decodes to
Utf8Step(b, i, bad) ==
  LET n == Len(b)
      c0 == At(b, i)
  IN IF c0 < 128 THEN <<(<<c0>>), 1>>
     ELSE IF c0 >= 194 /\ c0 <= 223 THEN
       IF i + 1 < n /\ IsCont(At(b, i + 1))
         THEN <<(<<(c0 - 192) * 64 + (At(b, i + 1) - 128)>>), 2>>
         ELSE <<bad, 1>>
     ELSE IF c0 >= 224 /\ c0 <= 239 THEN
       IF ~(i + 1 < n /\ At(b, i + 1) >= SecondLow(c0) /\ At(b, i + 1) <= SecondHigh(c0))
         THEN <<bad, 1>>
       ELSE IF ~(i + 2 < n /\ IsCont(At(b, i + 2))) THEN <<bad, 2>>
       ELSE <<(<<(c0 - 224) * 4096 + (At(b, i + 1) - 128) * 64 + (At(b, i + 2) - 128)>>), 3>>
     ELSE IF c0 >= 240 /\ c0 <= 244 THEN
       IF ~(i + 1 < n /\ At(b, i + 1) >= SecondLow(c0) /\ At(b, i + 1) <= SecondHigh(c0))
         THEN <<bad, 1>>
       ELSE IF ~(i + 2 < n /\ IsCont(At(b, i + 2))) THEN <<bad, 2>>
       ELSE IF ~(i + 3 < n /\ IsCont(At(b, i + 3))) THEN <<bad, 3>>
       ELSE <<(<<(c0 - 240) * 262144 + (At(b, i + 1) - 128) * 4096
                  + (At(b, i + 2) - 128) * 64 + (At(b, i + 3) - 128)>>), 4>>
     ELSE <<bad, 1>>

\* bytes.decode('utf-8') from index i to the end of b
Utf8From(b, i, bad) ==
  LET From[k \in 0..Len(b)] ==
        IF k >= Len(b) THEN <<>>
        ELSE LET r == Utf8Step(b, k, bad) IN r[1] \o From[k + r[2]]
  IN From[i]

\* b.decode('utf-8', errors='replace')
DecodeReplace(b) == Utf8From(b, 0, <<REPLACEMENT>>)

\* b.decode('utf-8', errors='ignore')
DecodeIgnore(b) == Utf8From(b, 0, <<>>)

\* str.isspace() of one character
IsSpace(c) ==
  \/ c >= 9 /\ c <= 13
  \/ c >= 28 /\ c <= 32
  \/ c \in {133, 160, 5760, 8232, 8233, 8239, 8287, 12288}
  \/ c >= 8192 /\ c <= 8202

RECURSIVE LStrip(_)
LStrip(t) == IF t # <<>> /\ IsSpace(Head(t)) THEN LStrip(Tail(t)) ELSE t

RECURSIVE RStrip(_)
RStrip(t) ==
  IF t # <<>> /\ IsSpace(t[Len(t)]) THEN RStrip(SubSeq(t, 1, Len(t) - 1)) ELSE t

\* str.strip()
Strip(t) == RStrip(LStrip(t))

\* s.replace(c, '')
RemoveChar(t, c) == SelectSeq(t, LAMBDA x : x # c)

\* c.isalnum() or ord(c) > 127, line 435
IsAlnumOrNonAscii(c) ==
  \/ c >= 48 /\ c <= 57
  \/ c >= 65 /\ c <= 90
  \/ c >= 97 /\ c <= 122
  \/ c > 127

\* str.isprintable() of one character, for the characters the studies
\* decode: U+0000..U+00FF, the CJK block U+3400..U+9FFF and U+FFFD
IsPrintableChar(c) ==
  \/ c >= 32 /\ c <= 126
  \/ c >= 161 /\ c <= 255 /\ c # 173
  \/ c >= 13312 /\ c <= 40959
  \/ c = REPLACEMENT

IsPrintable(t) == \A i \in 1..Len(t) : IsPrintableChar(t[i])

StartsWith(t, p) == Len(t) >= Len(p) /\ SubSeq(t, 1, Len(p)) = p

RECURSIVE IntToStr(_)
\* f"{n}" of a non-negative int
IntToStr(n) == IF n < 10 THEN <<48 + n>> ELSE IntToStr(n \div 10) \o <<48 + (n % 10)>>

RECURSIVE Join(_, _)
\* sep.join(ts)
Join(sep, ts) ==
  IF ts = <<>> THEN <<>>
  ELSE IF Len(ts) = 1 THEN ts[1]
  ELSE ts[1] \o sep \o Join(sep, Tail(ts))

\* string literals of the source
Str_NULL == <<78, 85, 76, 76>>
Str_def == <<100, 101, 102>>
Str_Question == <<63>>
Str_ROW == <<82, 79, 87, 58, 32>>
Str_Bar == <<32, 124, 32>>
Str_FIELD == <<70, 73, 69, 76, 68, 58, 32>>
Str_Dot == <<46>>
Str_OK == <<79, 75, 58, 32, 97, 102, 102, 101, 99, 116, 101, 100, 95, 114, 111, 119, 115, 61>>
Str_InsertId == <<44, 32, 105, 110, 115, 101, 114, 116, 95, 105, 100, 61>>
Str_ERROR == <<69, 82, 82, 79, 82>>
Str_Space == <<32>>
Str_OpenParen == <<32, 40>>
Str_CloseParenColon == <<41, 58, 32>>
Str_Colon == <<58, 32>>
Str_USE == <<85, 83, 69, 32>>
Str_PREPARE == <<91, 80, 82, 69, 80, 65, 82, 69, 93, 32>>
Str_EXECUTE_incomplete ==
  <<91, 69, 88, 69, 67, 85, 84, 69, 93, 32, 40, 105, 110, 99, 111, 109, 112, 108, 101, 116, 101, 41>>
Str_EXECUTE == <<91, 69, 88, 69, 67, 85, 84, 69, 93, 32, 115, 116, 109, 116, 95, 105, 100, 61>>
Str_Params == <<44, 32, 112, 97, 114, 97, 109, 115, 61, 91>>
Str_Comma == <<44, 32>>
Str_CloseBracket == <<93>>
Str_STMT_CLOSE ==
  <<91, 83, 84, 77, 84, 95, 67, 76, 79, 83, 69, 93, 32, 115, 116, 109, 116, 95, 105, 100, 61>>
Str_QUIT == <<91, 81, 85, 73, 84, 93>>
Str_PING == <<91, 80, 73, 78, 71, 93>>

----------------------------------------------------------------------------
(* _read_length_encoded_string, lines 259-276 *)

\* lines 259-276 without the length test of line 269
ReadStringNoLengthTest(d, off) ==
  IF off >= Len(d) THEN <<None, off>>
  ELSE IF At(d, off) = NULL_VALUE THEN <<Some(Str_NULL), off + 1>>
  ELSE Let(_read_length_encoded_int(d, off), LAMBDA r :
         IF ~r[1].some THEN <<None, off>>
         ELSE <<Some(DecodeReplace(Slice(d, r[2], r[2] + r[1].val))), r[2] + r[1].val>>)
_read_length_encoded_string(d, off) ==
  IF off >= Len(d) THEN <<None, off>>
  ELSE IF At(d, off) = NULL_VALUE THEN <<Some(Str_NULL), off + 1>>
  ELSE Let(_read_length_encoded_int(d, off), LAMBDA r :
         LET length == r[1]
             new_offset == r[2]
         IN IF ~length.some \/ new_offset + length.val > Len(d) THEN <<None, off>>
            ELSE <<Some(DecodeReplace(Slice(d, new_offset, new_offset + length.val))),
                   new_offset + length.val>>)

----------------------------------------------------------------------------
(* Row heuristic, _try_parse_row, lines 475-504 *)

RECURSIVE RowLoopKeepingEmpty(_, _, _, _)
\* lines 482-496 with line 493 reading "if 0 <= len(value) < 10000"
RowLoopKeepingEmpty(payload, pos, row, parsed) ==
  IF ~(pos < Len(payload)) THEN [row |-> row, pos |-> pos, parsed |-> parsed]
  ELSE IF At(payload, pos) = NULL_VALUE
    THEN RowLoopKeepingEmpty(payload, pos + 1, Append(row, Str_NULL), parsed + 1)
  ELSE Let(_read_length_encoded_string(payload, pos), LAMBDA r :
         LET value == r[1]
             new_pos == r[2]
         IN IF ~value.some \/ new_pos <= pos
              THEN [row |-> row, pos |-> pos, parsed |-> parsed]
            ELSE IF 0 <= Len(value.val) /\ Len(value.val) < 10000
              THEN RowLoopKeepingEmpty(payload, new_pos, Append(row, value.val), parsed + 1)
            ELSE RowLoopKeepingEmpty(payload, new_pos, row, parsed))

RECURSIVE RowLoop(_, _, _, _)
\* the while loop of lines 482-496; the value is the loop's final
\* row, pos and parsed
RowLoop(payload, pos, row, parsed) ==
  IF ~(pos < Len(payload)) THEN [row |-> row, pos |-> pos, parsed |-> parsed]
  ELSE IF At(payload, pos) = NULL_VALUE
    THEN RowLoop(payload, pos + 1, Append(row, Str_NULL), parsed + 1)
  ELSE Let(_read_length_encoded_string(payload, pos), LAMBDA r :
         LET value == r[1]
             new_pos == r[2]
         IN IF ~value.some \/ new_pos <= pos
              THEN [row |-> row, pos |-> pos, parsed |-> parsed]
            ELSE IF 0 < Len(value.val) /\ Len(value.val) < 10000
              THEN RowLoop(payload, new_pos, Append(row, value.val), parsed + 1)
            ELSE RowLoop(payload, new_pos, row, parsed))

\* line 499 with a threshold of one half
RowAcceptedHalf(payload, pos, parsed) == parsed >= 1 /\ 2 * pos >= Len(payload)
\* line 499: if parsed >= 1 and pos >= len(payload) * 0.8
RowAccepted(payload, pos, parsed) == parsed >= 1 /\ 10 * pos >= 8 * Len(payload)

_try_parse_row(payload) ==
  Let(RowLoop(payload, 0, <<>>, 0), LAMBDA end :
    IF RowAccepted(payload, end.pos, end.parsed) THEN Some(end.row) ELSE None)

----------------------------------------------------------------------------
(* Response decoder, lines 397-473 *)

\* line 453 testing the byte after the marker position
HasSqlStateMarkerShifted(payload) == Slice(payload, 4, 5) = <<35>>
\* line 453: if payload[3:4] == b'#'
HasSqlStateMarker(payload) == Slice(payload, 3, 4) = <<35>>

\* _decode_error, lines 446-459
_decode_error(payload) ==
  IF Len(payload) < 9 THEN Str_ERROR
  ELSE LET error_code == LittleEndian(Slice(payload, 1, 3))
       IN IF HasSqlStateMarker(payload)
            THEN LET sql_state == DecodeReplace(Slice(payload, 4, 9))
                     message == DecodeReplace(SliceFrom(payload, 9))
                 IN Str_ERROR \o Str_Space \o IntToStr(error_code) \o Str_OpenParen
                      \o sql_state \o Str_CloseParenColon \o message
          ELSE LET message == DecodeReplace(SliceFrom(payload, 3))
               IN Str_ERROR \o Str_Space \o IntToStr(error_code) \o Str_Colon \o message

\* _decode_ok, lines 461-473
_decode_ok(payload) ==
  IF Len(payload) < 7 THEN None
  ELSE LET a == _read_length_encoded_int(payload, 1)
           affected_rows == a[1]
           insert_id == _read_length_encoded_int(payload, a[2])[1]
       IN IF affected_rows.some /\ insert_id.some
               /\ (affected_rows.val > 0 \/ insert_id.val > 0)
            THEN Some(Str_OK \o IntToStr(affected_rows.val) \o Str_InsertId
                        \o IntToStr(insert_id.val))
          ELSE None

\* lines 426-431 without the removal of U+FFFD
CleanValueKeepingReplacement(v) == Strip(v)
\* clean_value, lines 426-431
clean_value(v) == Strip(RemoveChar(Strip(v), REPLACEMENT))

\* lines 416-423: the column-definition branch
FieldDefinition(row_data) ==
  IF Len(row_data) >= 5
    THEN LET table == row_data[3]
             column == row_data[5]
         IN IF column # <<>> /\ IsPrintable(column) /\ Len(column) < 64
                 /\ ~StartsWith(column, Str_Question)
              THEN Some(IF table # <<>> THEN Str_FIELD \o table \o Str_Dot \o column
                        ELSE Str_FIELD \o column)
            ELSE None
  ELSE None

\* lines 433-438: the ordinary-row branch
OrdinaryRow(row_data) ==
  Let(SelectSeq(row_data,
        LAMBDA v : v # <<>> /\ clean_value(v) # <<>> /\ Len(clean_value(v)) > 1),
      LAMBDA kept :
    Let([i \in 1..Len(kept) |-> clean_value(kept[i])], LAMBDA non_empty :
      LET meaningful == SelectSeq(non_empty,
                          LAMBDA v : \E i \in 1..Len(v) : IsAlnumOrNonAscii(v[i]))
      IN IF meaningful # <<>> THEN Some(Str_ROW \o Join(Str_Bar, non_empty)) ELSE None))

\* lines 397-444 with the OK rule of lines 441-442 before the row heuristic
DecodeResponseOkFirst(payload) ==
  IF Len(payload) = 0 THEN None
  ELSE LET first == At(payload, 0)
       IN IF first = ERROR_PACKET THEN Some(_decode_error(payload))
          ELSE IF first = EOF_PACKET /\ Len(payload) < 9 THEN None
          ELSE IF first = OK_PACKET /\ Len(payload) < 50 THEN _decode_ok(payload)
          ELSE Let(_try_parse_row(payload), LAMBDA row_data :
                 IF row_data.some /\ row_data.val # <<>>
                   THEN IF row_data.val[1] = Str_def THEN FieldDefinition(row_data.val)
                        ELSE OrdinaryRow(row_data.val)
                 ELSE None)
\* _decode_response, lines 397-444
_decode_response(payload) ==
  IF Len(payload) = 0 THEN None
  ELSE LET first == At(payload, 0)
       IN IF first = ERROR_PACKET THEN Some(_decode_error(payload))
          ELSE IF first = EOF_PACKET /\ Len(payload) < 9 THEN None
          ELSE Let(_try_parse_row(payload), LAMBDA row_data :
                 IF row_data.some /\ row_data.val # <<>>
                   THEN IF row_data.val[1] = Str_def THEN FieldDefinition(row_data.val)
                        ELSE OrdinaryRow(row_data.val)
                 ELSE IF first = OK_PACKET /\ Len(payload) < 50 THEN _decode_ok(payload)
                 ELSE None)

----------------------------------------------------------------------------
(* Command decoder, lines 282-391 *)

IsAsciiText(byte) == 32 <= byte /\ byte < 127

RECURSIVE FirstTextIndex(_, _)
\* lines 359-363: index of the first readable byte, 0 when there is none
FirstTextIndex(d, i) ==
  IF i >= Len(d) THEN 0
  ELSE IF IsAsciiText(At(d, i)) THEN i
  ELSE FirstTextIndex(d, i + 1)

\* current after the list has been flushed into params, lines 382-384
Flush(params, current) ==
  IF Len(current) >= 2 THEN Append(params, Flatten(current)) ELSE params

RECURSIVE ParamLoop(_, _, _, _)
\* the for loop of lines 367-384 and the final flush of lines 386-387
ParamLoop(d, i, current, params) ==
  IF i >= Len(d) THEN Flush(params, current)
  ELSE LET byte == At(d, i)
       IN IF IsAsciiText(byte) THEN ParamLoop(d, i + 1, Append(current, <<byte>>), params)
          ELSE IF byte >= 192 THEN
            IF byte >= 224 /\ i + 2 < Len(d)
              THEN ParamLoop(d, i + 1, Append(current, DecodeIgnore(Slice(d, i, i + 3))), params)
            ELSE IF i + 1 < Len(d)
              THEN ParamLoop(d, i + 1, Append(current, DecodeIgnore(Slice(d, i, i + 2))), params)
            ELSE ParamLoop(d, i + 1, current, params)
          ELSE ParamLoop(d, i + 1, <<>>, Flush(params, current))

\* _extract_params, lines 353-391
_extract_params(d) ==
  LET params == ParamLoop(d, FirstTextIndex(d, 0), <<>>, <<>>)
  IN IF params # <<>> THEN Some(params) ELSE None

\* lines 309, 317, 325 decoding the whole payload, opcode included
TrimmedTextWithOpcode(payload) == Strip(DecodeReplace(payload))
\* lines 309, 317, 325: payload[1:].decode('utf-8', errors='replace').strip()
TrimmedText(payload) == Strip(DecodeReplace(SliceFrom(payload, 1)))

\* _decode_query, lines 306-312
_decode_query(payload) ==
  IF TrimmedText(payload) # <<>> THEN Some(TrimmedText(payload)) ELSE None

\* _decode_init_db, lines 314-320
_decode_init_db(payload) ==
  IF TrimmedText(payload) # <<>> THEN Some(Str_USE \o TrimmedText(payload)) ELSE None

\* _decode_stmt_prepare, lines 322-328
_decode_stmt_prepare(payload) ==
  IF TrimmedText(payload) # <<>> THEN Some(Str_PREPARE \o TrimmedText(payload)) ELSE None

\* _decode_stmt_execute, lines 330-344
_decode_stmt_execute(payload) ==
  IF Len(payload) < 10 THEN Str_EXECUTE_incomplete
  ELSE LET stmt_id == LittleEndian(Slice(payload, 1, 5))
           head == Str_EXECUTE \o IntToStr(stmt_id)
           params == IF Len(payload) > 10 THEN _extract_params(SliceFrom(payload, 10))
                     ELSE None
       IN IF params.some
            THEN head \o Str_Params \o Join(Str_Comma, params.val) \o Str_CloseBracket
          ELSE head

\* lines 346-351 with the length test of line 348 one byte short
DecodeStmtCloseFourBytes(payload) ==
  IF Len(payload) >= 4
    THEN Some(Str_STMT_CLOSE \o IntToStr(LittleEndian(Slice(payload, 1, 5))))
  ELSE None
\* _decode_stmt_close, lines 346-351
_decode_stmt_close(payload) ==
  IF Len(payload) >= 5
    THEN Some(Str_STMT_CLOSE \o IntToStr(LittleEndian(Slice(payload, 1, 5))))
  ELSE None

\* _decode_command, lines 282-304
_decode_command(payload) ==
  IF Len(payload) = 0 THEN None
  ELSE LET cmd == At(payload, 0)
       IN IF cmd = COM_QUERY THEN _decode_query(payload)
          ELSE IF cmd = COM_INIT_DB THEN _decode_init_db(payload)
          ELSE IF cmd = COM_STMT_PREPARE THEN _decode_stmt_prepare(payload)
          ELSE IF cmd = COM_STMT_EXECUTE THEN Some(_decode_stmt_execute(payload))
          ELSE IF cmd = COM_STMT_CLOSE THEN _decode_stmt_close(payload)
          ELSE IF cmd = COM_QUIT THEN Some(Str_QUIT)
          ELSE IF cmd = COM_PING THEN Some(Str_PING)
          ELSE None

----------------------------------------------------------------------------
(* _format_packet, lines 510-525.  A report line for an event is the      *)
(* record of what the f-string prints: the entry's timestamp and          *)
(* direction, the label ("SQL" or "Response") and the decoded text.       *)

ClientToServer == "Client->Server"
ServerToClient == "Server->Client"

_format_packet(pkt_info) ==
  LET direction == pkt_info.direction
      payload == pkt_info.packet.payload
  IN IF direction = ClientToServer
       THEN LET decoded == _decode_command(payload)
            IN IF decoded.some /\ decoded.val # <<>>
                 THEN Some([kind |-> "event", timestamp |-> pkt_info.timestamp,
                            direction |-> direction, label |-> "SQL", text |-> decoded.val])
               ELSE None
     ELSE LET decoded == _decode_response(payload)
          IN IF decoded.some /\ decoded.val # <<>>
               THEN Some([kind |-> "event", timestamp |-> pkt_info.timestamp,
                          direction |-> direction, label |-> "Response", text |-> decoded.val])
             ELSE None

----------------------------------------------------------------------------
(* Exceptions.  A decoder propagates a failure when an operation outside  *)
(* a try block raises: struct.unpack on a buffer of the wrong size, or a   *)
(* subscript at or past the end.  bytes.decode with errors='replace',      *)
(* slices, str methods and integer arithmetic do not raise; _decode_query, *)
(* _decode_init_db, _decode_stmt_prepare, _extract_params and              *)
(* _try_parse_row catch every exception (lines 311, 319, 327, 388, 503).   *)

\* struct.unpack(fmt, b) raises struct.error unless len(b) is the size of fmt
UnpackRaises(size, b) == Len(b) # size

\* data[i] raises IndexError when i >= len(data)
IndexRaises(d, i) == i >= Len(d)

\* _read_length_encoded_int, lines 233-257
ReadIntRaises(d, off) ==
  IF off >= Len(d) THEN FALSE
  ELSE IF IndexRaises(d, off) THEN TRUE
  ELSE LET first == At(d, off)
       IN IF IsOneByteValue(first) THEN FALSE
          ELSE IF first = 252 /\ off + 3 <= Len(d)
            THEN UnpackRaises(2, Slice(d, off + 1, off + 3))
          ELSE IF first = 253 /\ off + 4 <= Len(d)
            THEN UnpackRaises(4, Slice(d, off + 1, off + 4) \o <<0>>)
          ELSE IF first = 254 /\ off + 9 <= Len(d)
            THEN UnpackRaises(8, Slice(d, off + 1, off + 9))
          ELSE FALSE

\* _decode_error, lines 446-459
DecodeErrorRaises(payload) ==
  IF Len(payload) < 9 THEN FALSE ELSE UnpackRaises(2, Slice(payload, 1, 3))

\* _decode_ok, lines 461-473
DecodeOkRaises(payload) ==
  IF Len(payload) < 7 THEN FALSE
  ELSE \/ ReadIntRaises(payload, 1)
       \/ ReadIntRaises(payload, _read_length_encoded_int(payload, 1)[2])

\* _decode_response, lines 397-444: row_data[0] is read of a non-empty
\* list, row_data[2] and row_data[4] behind the tests of lines 417-419
DecodeResponseRaises(payload) ==
  IF Len(payload) = 0 THEN FALSE
  ELSE IF IndexRaises(payload, 0) THEN TRUE
  ELSE LET first == At(payload, 0)
       IN IF first = ERROR_PACKET THEN DecodeErrorRaises(payload)
          ELSE IF first = EOF_PACKET /\ Len(payload) < 9 THEN FALSE
          ELSE Let(_try_parse_row(payload), LAMBDA row_data :
                 IF row_data.some /\ row_data.val # <<>> THEN FALSE
                 ELSE IF first = OK_PACKET /\ Len(payload) < 50 THEN DecodeOkRaises(payload)
                 ELSE FALSE)

\* _decode_stmt_execute, lines 330-344
DecodeStmtExecuteRaises(payload) ==
  IF Len(payload) < 10 THEN FALSE ELSE UnpackRaises(4, Slice(payload, 1, 5))

\* _decode_stmt_close, lines 346-351
DecodeStmtCloseRaises(payload) ==
  IF Len(payload) >= 5 THEN UnpackRaises(4, Slice(payload, 1, 5)) ELSE FALSE

\* _decode_command, lines 282-304
DecodeCommandRaises(payload) ==
  IF Len(payload) = 0 THEN FALSE
  ELSE IF IndexRaises(payload, 0) THEN TRUE
  ELSE LET cmd == At(payload, 0)
       IN IF cmd = COM_STMT_EXECUTE THEN DecodeStmtExecuteRaises(payload)
          ELSE IF cmd = COM_STMT_CLOSE THEN DecodeStmtCloseRaises(payload)
          ELSE FALSE

\* _format_packet, lines 510-525
FormatPacketRaises(pkt_info) ==
  IF pkt_info.direction = ClientToServer
    THEN DecodeCommandRaises(pkt_info.packet.payload)
  ELSE DecodeResponseRaises(pkt_info.packet.payload)

\* the value of a call that an exception leaves
Raised == [some |-> FALSE, raised |-> TRUE]

----------------------------------------------------------------------------
(* Connection demultiplexer, lines 155-200.  A captured packet is a record *)
(* [ip, src, sport, dst, dport, payload, time]: ip says whether it has the *)
(* IP and TCP layers.  A connection key is the tuple the f-string of lines *)
(* 182/184 prints, <<client ip, client port, server ip, server port>>.     *)

\* _is_mysql_packet, lines 195-200
_is_mysql_packet(packet) ==
  packet.ip /\ (packet.sport = mysql_port \/ packet.dport = mysql_port)

\* line 177 testing the source port
IsClientToServerBySource(packet) == packet.sport # mysql_port
\* line 177
is_client_to_server(packet) == packet.dport = mysql_port

\* line 178
DirectionOf(packet) == IF is_client_to_server(packet) THEN ClientToServer ELSE ServerToClient

\* lines 181-184
ConnKey(packet) ==
  IF is_client_to_server(packet)
    THEN <<packet.src, packet.sport, packet.dst, packet.dport>>
  ELSE <<packet.dst, packet.dport, packet.src, packet.sport>>

\* lines 160-174: the packet is skipped
Skipped(packet) == ~_is_mysql_packet(packet) \/ Len(packet.payload) = 0

\* lines 187-193: the entries one packet contributes, in frame order
EntriesOf(packet) ==
  LET frames == _parse_mysql_packets(packet.payload)
  IN [i \in 1..Len(frames) |->
        [timestamp |-> packet.time, direction |-> DirectionOf(packet), packet |-> frames[i]]]

\* position of key in the dictionary, 0 when absent
KeyIndex(conns, key) ==
  IF \E i \in 1..Len(conns) : conns[i].key = key
    THEN CHOOSE i \in 1..Len(conns) : conns[i].key = key
  ELSE 0

\* line 189 with the key created before the frames are looked at
AppendEntriesTouching(conns, key, entries) ==
  IF KeyIndex(conns, key) = 0 THEN Append(conns, [key |-> key, packets |-> entries])
  ELSE [conns EXCEPT ![KeyIndex(conns, key)].packets = @ \o entries]
\* line 189 with each entry inserted at the head of the list
PrependEntries(conns, key, entries) ==
  IF entries = <<>> THEN conns
  ELSE IF KeyIndex(conns, key) = 0 THEN Append(conns, [key |-> key, packets |-> entries])
  ELSE [conns EXCEPT ![KeyIndex(conns, key)].packets = entries \o @]
\* lines 188-193: self._connections[conn_key].append(...) for each frame; the
\* defaultdict creates the key, at the end of the dictionary, at the first append
AppendEntries(conns, key, entries) ==
  IF entries = <<>> THEN conns
  ELSE IF KeyIndex(conns, key) = 0 THEN Append(conns, [key |-> key, packets |-> entries])
  ELSE [conns EXCEPT ![KeyIndex(conns, key)].packets = @ \o entries]

\* one iteration of the for loop of lines 159-193
ExtractOne(conns, packet) ==
  IF Skipped(packet) THEN conns
  ELSE AppendEntries(conns, ConnKey(packet), EntriesOf(packet))

----------------------------------------------------------------------------
(* generate_report, lines 96-123.  The report is the list of lines that   *)
(* line 123 joins, each line a record of what it prints.                  *)

RECURSIVE SumLen(_)
\* line 108
SumLen(conns) == IF conns = <<>> THEN 0 ELSE Len(Head(conns).packets) + SumLen(Tail(conns))

RECURSIVE EventLinesUntilFailure(_)
\* lines 118-121 with the loop left at the first entry that decodes to nothing
EventLinesUntilFailure(entries) ==
  IF entries = <<>> THEN <<>>
  ELSE IF ~_format_packet(Head(entries)).some THEN <<>>
  ELSE <<_format_packet(Head(entries)).val>> \o EventLinesUntilFailure(Tail(entries))
\* lines 118-121 for one connection, events that decode to nothing left out
EventLines(entries) ==
  Let(SelectSeq([i \in 1..Len(entries) |-> _format_packet(entries[i])], LAMBDA r : r.some),
      LAMBDA kept : [i \in 1..Len(kept) |-> kept[i].val])

\* lines 113-121 for one connection
ConnectionLines(conn) ==
  <<[kind |-> "rule"], [kind |-> "connection", key |-> conn.key],
    [kind |-> "packet_count", n |-> Len(conn.packets)], [kind |-> "rule"]>>
    \o EventLines(conn.packets)

generate_report(conns) ==
  <<[kind |-> "rule"], [kind |-> "title"], [kind |-> "rule"],
    [kind |-> "total_connections", n |-> Len(conns)],
    [kind |-> "total_packets", n |-> SumLen(conns)]>>
    \o Flatten([i \in 1..Len(conns) |-> ConnectionLines(conns[i])])

----------------------------------------------------------------------------
(* The framing of line 210, [length:3][sequence:1][payload:length], as the *)
(* sender writes it                                                        *)

EncodeFrame(f) ==
  <<f.length % 256, (f.length \div 256) % 256, (f.length \div 65536) % 256,
    f.sequence>> \o f.payload

EncodeFrames(fs) == Flatten([i \in 1..Len(fs) |-> EncodeFrame(fs[i])])

----------------------------------------------------------------------------
(* Bounds and inputs of the frame splitter study *)

MaxFrames == 2
MaxBufLen == 9

SplitBytes == {0, 1, 2}
SeqNums == {0, 1, 255}
BigPayload == [i \in 1..256 |-> 65]
FramePayloads == {<<>>, <<14>>, <<3, 65>>, BigPayload}

FrameSet ==
  {[length |-> Len(p), sequence |-> s, payload |-> p] : p \in FramePayloads, s \in SeqNums}

\* machine variables while a single function is under study
MachineIdle ==
  /\ packets = <<>>
  /\ idx = 1
  /\ connections = <<>>
  /\ report = <<>>

InitSplit ==
  /\ pc = "call"
  /\ MachineIdle
  /\ offset = 0
  /\ result = None
  /\ \/ \E fs \in SeqsUpTo(FrameSet, MaxFrames) :
          frames_in = Some(fs) /\ data = EncodeFrames(fs)
     \/ frames_in = None /\ data \in SeqsUpTo(SplitBytes, MaxBufLen)

ParseMysqlPackets ==
  /\ pc = "call"
  /\ result' = Some(_parse_mysql_packets(data))
  /\ pc' = "return"
  /\ UNCHANGED <<packets, idx, connections, report, data, offset, frames_in>>

NextSplit == ParseMysqlPackets

SpecSplit == InitSplit /\ [][NextSplit]_vars

----------------------------------------------------------------------------
(* C1 *)

\* C1 as stated: every sequence of frames with length = len(payload), once
\* concatenated in the framing and split, comes back unchanged.
C1_RoundTripAnyFrames ==
  (pc = "return" /\ frames_in.some) => result.val = frames_in.val

AllFramesNonEmpty(fs) == \A i \in 1..Len(fs) : fs[i].length >= 1

\* C1 amended: every sequence of frames whose lengths are all at least 1,
\* once concatenated in the framing and split, comes back unchanged, in order.
C1_RoundTripNonEmptyFrames ==
  (pc = "return" /\ frames_in.some /\ AllFramesNonEmpty(frames_in.val))
    => result.val = frames_in.val

C1_Witness ==
  /\ pc = "return"
  /\ frames_in.some
  /\ Len(frames_in.val) = 2
  /\ AllFramesNonEmpty(frames_in.val)
  /\ frames_in.val[1].length = 256
  /\ result.val = frames_in.val

----------------------------------------------------------------------------
(* C2 *)

IsPrefixOf(s, t) == Len(s) <= Len(t) /\ SubSeq(t, 1, Len(s)) = s

\* the bytes left after the emitted frames hold no complete non-empty frame
RemainderIsPartial(d, used) ==
  \/ Len(d) - used < 4
  \/ FrameLength(d, used) = 0
  \/ FrameLength(d, used) > Len(d) - used - 4

\* C2: the splitter never emits a frame of length 0, every emitted frame has
\* len(payload) = length, no index >= len(buffer) is read, the emitted frames
\* are the leading bytes of the buffer and a trailing partial frame adds none.
C2_SplitterSafe ==
  pc = "return" =>
    /\ \A i \in 1..Len(result.val) :
         /\ result.val[i].length # 0
         /\ Len(result.val[i].payload) = result.val[i].length
    /\ ParseReads(data, 0) < Len(data)
    /\ IsPrefixOf(EncodeFrames(result.val), data)
    /\ ParseEnd(data, 0) = Len(EncodeFrames(result.val))
    /\ RemainderIsPartial(data, Len(EncodeFrames(result.val)))

C2_Witness ==
  /\ pc = "return"
  /\ ~frames_in.some
  /\ Len(result.val) = 1
  /\ Len(data) >= Len(EncodeFrames(result.val)) + 4
  /\ FrameLength(data, Len(EncodeFrames(result.val))) > 0

----------------------------------------------------------------------------
(* Bounds and inputs of the codec study *)

MaxZeroTail == 6
MaxPad == 1

FirstBytes == {0, 5, 250, 251, 252, 253, 254, 255}
TailBytes == {1, 2, 255}

\* bytes after the first byte; beyond the third they are 0, which keeps
\* every decoded value below 2^31
IntTails ==
  SeqsUpTo(TailBytes, 3)
    \cup {lo \o [i \in 1..k |-> 0] : lo \in [1..3 -> TailBytes], k \in 1..MaxZeroTail}

CodecBuffers ==
  {<<>>} \cup {[i \in 1..n |-> 7] \o <<f>> \o t : n \in 0..MaxPad, f \in FirstBytes, t \in IntTails}

\* buffers that hold a length-encoded string: two-, three- and eight-byte
\* length prefixes, text that is and is not valid UTF-8, a string cut short
StringBuffers ==
  { <<252, 2, 0, 65, 66>>, <<252, 2, 0, 65>>, <<253, 1, 0, 0, 65>>,
    <<254, 1, 0, 0, 0, 0, 0, 0, 0, 65>>, <<2, 195, 169>>, <<1, 255>>,
    <<3, 65, 66, 67, 68>>, <<3, 65, 66>>, <<251, 5, 65>> }

InitCodec ==
  /\ pc = "call"
  /\ MachineIdle
  /\ frames_in = None
  /\ result = None
  /\ data \in CodecBuffers \cup StringBuffers
  /\ offset \in 0..(Len(data) + 1)

ReadLengthEncodedInt ==
  /\ pc = "call"
  /\ result' = _read_length_encoded_int(data, offset)
  /\ pc' = "read_int"
  /\ UNCHANGED <<packets, idx, connections, report, data, offset, frames_in>>

ReadLengthEncodedString ==
  /\ pc = "call"
  /\ result' = _read_length_encoded_string(data, offset)
  /\ pc' = "read_string"
  /\ UNCHANGED <<packets, idx, connections, report, data, offset, frames_in>>

NextCodec == ReadLengthEncodedInt \/ ReadLengthEncodedString

SpecCodec == InitCodec /\ [][NextCodec]_vars

----------------------------------------------------------------------------
(* C10 *)

\* number of bytes from the offset to the end of the buffer
Avail == Len(data) - offset

\* the byte k places after the offset
Nth(k) == data[offset + k + 1]

\* C10: decode_int agrees with the reference: b0 < 0xFB gives (b0, offset+1);
\* 0xFC, 0xFD, 0xFE give the little-endian value of the next 2, 3, 8 bytes
\* and offset+3, +4, +9; with too few bytes, an offset at or past the end,
\* or first byte 0xFB or 0xFF, the result is (None, offset).
C10_DecodeIntReference ==
  pc = "read_int" =>
    /\ Avail <= 0 => result = <<None, offset>>
    /\ (Avail >= 1 /\ Nth(0) < 251) => result = <<Some(Nth(0)), offset + 1>>
    /\ (Avail >= 1 /\ Nth(0) \in {251, 255}) => result = <<None, offset>>
    /\ (Avail >= 1 /\ Nth(0) = 252) =>
         result = IF Avail >= 3 THEN <<Some(Nth(1) + 256 * Nth(2)), offset + 3>>
                  ELSE <<None, offset>>
    /\ (Avail >= 1 /\ Nth(0) = 253) =>
         result = IF Avail >= 4
                  THEN <<Some(Nth(1) + 256 * Nth(2) + 65536 * Nth(3)), offset + 4>>
                  ELSE <<None, offset>>
    /\ (Avail >= 1 /\ Nth(0) = 254) =>
         result = IF Avail >= 9
                  THEN <<Some(Nth(1) + 256 * (Nth(2) + 256 * (Nth(3) + 256 * (Nth(4)
                           + 256 * (Nth(5) + 256 * (Nth(6) + 256 * (Nth(7)
                           + 256 * Nth(8)))))))), offset + 9>>
                  ELSE <<None, offset>>
    /\ (data = <<252, 1, 2>> /\ offset = 0) => result = <<Some(513), 3>>
    /\ (data = <<252, 1>> /\ offset = 0) => result = <<None, 0>>

C10_Witness ==
  /\ pc = "read_int"
  /\ data = <<252, 1, 2>>
  /\ offset = 0
  /\ result = <<Some(513), 3>>

----------------------------------------------------------------------------
(* C11 *)

\* the length prefix decode_int reads at the offset
DeclaredLength == _read_length_encoded_int(data, offset)

\* C11: decode_string returns ("NULL", offset+1) when the byte at the offset
\* is 0xFB, whatever follows; otherwise, with n the length-encoded integer at
\* the offset, the n bytes after the prefix as text and the offset just past
\* them; and (None, offset) when n cannot be decoded or exceeds the bytes
\* that remain after the prefix.
C11_DecodeString ==
  pc = "read_string" =>
    /\ (Avail >= 1 /\ Nth(0) = 251) => result = <<Some(<<78, 85, 76, 76>>), offset + 1>>
    /\ (Avail >= 1 /\ Nth(0) # 251 /\ DeclaredLength[1].some
          /\ DeclaredLength[1].val <= Len(data) - DeclaredLength[2]) =>
         result = <<Some(DecodeReplace(SubSeq(data, DeclaredLength[2] + 1,
                                              DeclaredLength[2] + DeclaredLength[1].val))),
                    DeclaredLength[2] + DeclaredLength[1].val>>
    /\ (Avail <= 0 \/ (Nth(0) # 251 /\ ~DeclaredLength[1].some)) => result = <<None, offset>>
    /\ (Avail >= 1 /\ Nth(0) # 251 /\ DeclaredLength[1].some
          /\ DeclaredLength[1].val > Len(data) - DeclaredLength[2]) =>
         result = <<None, offset>>

C11_Witness ==
  /\ pc = "read_string"
  /\ data = <<252, 2, 0, 65, 66>>
  /\ offset = 0
  /\ result = <<Some(<<65, 66>>), 5>>

----------------------------------------------------------------------------
(* Bounds and inputs of the response decoder study *)

MaxFields == 3
MaxRespLen == 5
MaxErrLen == 9

RespBytes == {0, 1, 2, 65, 251, 255}
PadBytes == {0, 32, 65, 255}
ErrBytes == {20, 35, 228}

\* a row field: the NULL marker, or text bytes behind a one-byte or a
\* three-byte (0xFC) length prefix
FieldSet ==
  {[null |-> TRUE, wide |-> FALSE, bytes |-> <<>>]}
    \cup {[null |-> FALSE, wide |-> w, bytes |-> b] :
            w \in BOOLEAN, b \in {<<>>, <<65>>, <<65, 66>>}}

\* the length-encoded string of a field, as the server writes it
EncodeField(f) ==
  IF f.null THEN <<NULL_VALUE>>
  ELSE IF f.wide THEN <<252, Len(f.bytes) % 256, Len(f.bytes) \div 256>> \o f.bytes
  ELSE <<Len(f.bytes)>> \o f.bytes

EncodeFields(fs) == Flatten([i \in 1..Len(fs) |-> EncodeField(fs[i])])

Str_TableNotFound == <<84, 97, 98, 108, 101, 32, 110, 111, 116, 32, 102, 111, 117, 110, 100>>
Str_42S02 == <<52, 50, 83, 48, 50>>
TableNotFoundPayload == <<ERROR_PACKET, 20, 4, 35>> \o Str_42S02 \o Str_TableNotFound

\* OK and EOF payloads: OK payloads the row heuristic rejects and ones it
\* accepts, EOF payloads below and of 9 bytes
OkEofPayloads ==
  { <<OK_PACKET, 200, 0, 0, 0, 0, 0>>, <<OK_PACKET, 0, 200, 0, 0, 0, 0>>,
    <<OK_PACKET, 0, 0, 0, 0, 0, 0>>, <<OK_PACKET, 200, 252, 1, 0, 0, 0>>,
    <<OK_PACKET, 200, 0, 0, 0, 0>>, <<OK_PACKET, 1, 65, 0, 0, 0, 0>>,
    <<EOF_PACKET>>, <<EOF_PACKET, 0, 0, 2, 0>>, <<EOF_PACKET, 1, 0, 0, 0, 0, 0, 0>>,
    <<EOF_PACKET, 1, 0, 0, 0, 0, 0, 0, 0>>, <<EOF_PACKET, 1, 0, 0, 0, 0, 0, 0, 0, 65>> }

MaxDefFields == 4

\* the catalog field of a column definition
DefField == [null |-> FALSE, wide |-> FALSE, bytes |-> <<100, 101, 102>>]

\* fields of a column definition: empty, "t", "c1", "?c", a name with a
\* control character and a name of 64 characters
DefFieldSet ==
  {[null |-> FALSE, wide |-> FALSE, bytes |-> b] :
     b \in {<<>>, <<116>>, <<99, 49>>, <<63, 99>>, <<99, 7>>, [i \in 1..64 |-> 99]}}

\* fields of an ordinary row: text to trim, text with bytes that are not
\* UTF-8, punctuation, non-ASCII text, one character, blanks, nothing, NULL
TextFieldSet ==
  {[null |-> TRUE, wide |-> FALSE, bytes |-> <<>>]}
    \cup {[null |-> FALSE, wide |-> FALSE, bytes |-> b] :
            b \in {<<32, 65, 66>>, <<255, 65, 66>>, <<45, 45>>, <<195, 169, 195, 169>>,
                   <<65>>, <<32, 32>>, <<255, 65>>, <<>>}}

InitResp ==
  /\ pc = "call"
  /\ MachineIdle
  /\ offset = 0
  /\ result = None
  /\ \/ \E fs \in SeqsUpTo(FieldSet, MaxFields) \cup SeqsUpTo(TextFieldSet, MaxFields) :
          frames_in = Some(fs) /\ data = EncodeFields(fs)
     \/ \E fs \in SeqsUpTo(DefFieldSet, MaxDefFields) :
          frames_in = Some(<<DefField>> \o fs) /\ data = EncodeFields(<<DefField>> \o fs)
     \/ /\ frames_in = None
        /\ \/ data \in SeqsUpTo(RespBytes, MaxRespLen)
           \/ \E pad \in [1..4 -> PadBytes] : data = <<OK_PACKET, 5, 10>> \o pad
           \/ \E body \in SeqsUpTo(ErrBytes, MaxErrLen) : data = <<ERROR_PACKET>> \o body
           \/ data = TableNotFoundPayload
           \/ data \in OkEofPayloads

DecodeResponse ==
  /\ pc = "call"
  /\ result' = _decode_response(data)
  /\ pc' = "decode_response"
  /\ UNCHANGED <<packets, idx, connections, report, data, offset, frames_in>>

TryParseRow ==
  /\ pc = "call"
  /\ result' = _try_parse_row(data)
  /\ pc' = "try_parse_row"
  /\ UNCHANGED <<packets, idx, connections, report, data, offset, frames_in>>

DecodeOk ==
  /\ pc = "call"
  /\ result' = _decode_ok(data)
  /\ pc' = "decode_ok"
  /\ UNCHANGED <<packets, idx, connections, report, data, offset, frames_in>>

NextResp == DecodeResponse \/ TryParseRow \/ DecodeOk

SpecResp == InitResp /\ [][NextResp]_vars

----------------------------------------------------------------------------
(* C7 *)

Str_OkExample ==
  <<79, 75, 58, 32, 97, 102, 102, 101, 99, 116, 101, 100, 95, 114, 111, 119, 115, 61, 53,
    44, 32, 105, 110, 115, 101, 114, 116, 95, 105, 100, 61, 49, 48>>

\* C7: the response decoder turns the 7-byte payload {0x00, 0x05, 0x0A, p1,
\* p2, p3, p4} into "OK: affected_rows=5, insert_id=10" whatever the four
\* padding bytes are.
C7_OkPacketText ==
  (pc = "decode_response" /\ Len(data) = 7 /\ SubSeq(data, 1, 3) = <<OK_PACKET, 5, 10>>)
    => result = Some(Str_OkExample)

----------------------------------------------------------------------------
(* C8 *)

RECURSIVE HaltOffset(_, _)
\* offset at which reading length-encoded strings one after another from
\* off stops: the end of the buffer or the first string that does not decode
HaltOffset(d, off) ==
  LET r == _read_length_encoded_string(d, off)
  IN IF r[1].some THEN HaltOffset(d, r[2]) ELSE off

HaltsBelowThreshold(d) == 10 * HaltOffset(d, 0) < 8 * Len(d)

CountedField(f) ==
  f.null \/ (Len(DecodeReplace(f.bytes)) > 0 /\ Len(DecodeReplace(f.bytes)) < 10000)

----------------------------------------------------------------------------
(* C9 *)

\* the text the ERROR rule prescribes for a payload
ErrorText(d) ==
  IF Len(d) < 9 THEN <<69, 82, 82, 79, 82>>
  ELSE LET code == d[2] + 256 * d[3]
       IN IF d[4] = 35
            THEN <<69, 82, 82, 79, 82, 32>> \o IntToStr(code) \o <<32, 40>>
                   \o DecodeReplace(SubSeq(d, 5, 9)) \o <<41, 58, 32>>
                   \o DecodeReplace(SubSeq(d, 10, Len(d)))
          ELSE <<69, 82, 82, 79, 82, 32>> \o IntToStr(code) \o <<58, 32>>
                 \o DecodeReplace(SubSeq(d, 4, Len(d)))

Str_ErrorExample ==
  <<69, 82, 82, 79, 82, 32, 49, 48, 52, 52, 32, 40, 52, 50, 83, 48, 50, 41, 58, 32, 84,
    97, 98, 108, 101, 32, 110, 111, 116, 32, 102, 111, 117, 110, 100>>

\* C9: a server payload that starts with 0xFF always decodes to the ERROR
\* text: "ERROR" below 9 bytes, else "ERROR <code> (<state>): <message>" when
\* byte 3 is '#', else "ERROR <code>: <message>"; the example payload gives
\* "ERROR 1044 (42S02): Table not found".
C9_ErrorText ==
  (pc = "decode_response" /\ Len(data) > 0 /\ data[1] = ERROR_PACKET) =>
    /\ result = Some(ErrorText(data))
    /\ data = TableNotFoundPayload => result = Some(Str_ErrorExample)

C9_Witness ==
  /\ pc = "decode_response"
  /\ data = TableNotFoundPayload
  /\ result = Some(Str_ErrorExample)

----------------------------------------------------------------------------
(* C15 *)

\* the payload is one for the ERROR rule, for the short-EOF rule
IsErrorPayload == data[1] = 255
IsShortEof == data[1] = 254 /\ Len(data) < 9

\* the payload passes the first two rules and the row heuristic accepts it
RowRuleApplies == ~IsErrorPayload /\ ~IsShortEof /\ _try_parse_row(data).some

\* C15: the rules are tried in the order ERROR, short EOF, row heuristic,
\* OK and the first that matches decides: 0xFF gives the ERROR text, 0xFE
\* below 9 bytes gives no event, a payload the row heuristic accepts gives
\* what the row rules give (a FIELD or ROW text or nothing, never an OK
\* text), and the OK rule decides only payloads the row heuristic rejects.
C15_RuleOrder ==
  (pc = "decode_response" /\ data # <<>>) =>
    /\ IsErrorPayload => result = Some(_decode_error(data))
    /\ IsShortEof => result = None
    /\ RowRuleApplies =>
         \/ result = None
         \/ StartsWith(result.val, <<82, 79, 87, 58, 32>>)
         \/ StartsWith(result.val, <<70, 73, 69, 76, 68, 58, 32>>)
    /\ (~IsErrorPayload /\ ~IsShortEof /\ ~RowRuleApplies) =>
         result = IF data[1] = 0 /\ Len(data) < 50 THEN _decode_ok(data) ELSE None

C15_Witness ==
  /\ pc = "decode_response"
  /\ data = <<OK_PACKET, 200, 0, 0, 0, 0, 0>>
  /\ ~_try_parse_row(data).some
  /\ result = Some(Str_OK \o <<50, 48, 48>> \o Str_InsertId \o <<48>>)

----------------------------------------------------------------------------
(* C16 *)

\* the text of a length-encoded field of the payload
FieldText(f) == IF f.null THEN <<78, 85, 76, 76>> ELSE DecodeReplace(f.bytes)

\* field k (0-based) of the payload's length-encoded fields, "" when absent
PayloadField(k) ==
  IF k < Len(frames_in.val) THEN FieldText(frames_in.val[k + 1]) ELSE <<>>

\* column is non-empty, printable, shorter than 64 and does not start with "?"
ValidColumn(column) ==
  /\ column # <<>>
  /\ IsPrintable(column)
  /\ Len(column) < 64
  /\ ~StartsWith(column, <<63>>)

\* C16: for a payload the row heuristic accepts whose first field is "def",
\* with table = field[2] and column = field[4] of the payload's fields, the
\* response is "FIELD: <table>.<column>", or "FIELD: <column>" when the table
\* is empty, iff the column is non-empty, printable, shorter than 64
\* characters and does not start with "?"; otherwise there is no event.
C16_FieldOfPayloadPositions ==
  (/\ pc = "decode_response"
   /\ frames_in.some
   /\ frames_in.val # <<>>
   /\ PayloadField(0) = <<100, 101, 102>>
   /\ _try_parse_row(data).some) =>
    result = IF ValidColumn(PayloadField(4))
               THEN Some(IF PayloadField(2) # <<>>
                           THEN <<70, 73, 69, 76, 68, 58, 32>> \o PayloadField(2) \o <<46>>
                                  \o PayloadField(4)
                         ELSE <<70, 73, 69, 76, 68, 58, 32>> \o PayloadField(4))
             ELSE None

----------------------------------------------------------------------------
(* C17 *)

\* a field with the whitespace at its ends and every U+FFFD taken away
Cleaned(v) == Strip(SelectSeq(v, LAMBDA c : c # 65533))

\* the cleaned fields of more than one character, in field order
KeptFields(row) == SelectSeq([i \in 1..Len(row) |-> Cleaned(row[i])], LAMBDA v : Len(v) > 1)

\* v holds a letter or digit or a character beyond ASCII
HasMeaning(v) ==
  \E i \in 1..Len(v) :
    v[i] \in (48..57) \cup (65..90) \cup (97..122) \/ v[i] > 127

\* the row the heuristic returns for the payload
ParsedRow == _try_parse_row(data).val

\* C17: for a payload the row heuristic accepts whose first field is not
\* "def", the fields are cleaned, those of cleaned length <= 1 dropped, and
\* the response is "ROW: " followed by the kept fields joined with " | " in
\* field order iff one of them holds an alphanumeric or non-ASCII character;
\* otherwise there is no event.
C17_OrdinaryRow ==
  (/\ pc = "decode_response"
   /\ data # <<>>
   /\ RowRuleApplies
   /\ ParsedRow[1] # <<100, 101, 102>>) =>
    result = IF \E k \in 1..Len(KeptFields(ParsedRow)) : HasMeaning(KeptFields(ParsedRow)[k])
               THEN Some(<<82, 79, 87, 58, 32>> \o Join(<<32, 124, 32>>, KeptFields(ParsedRow)))
             ELSE None

C17_Witness ==
  /\ pc = "decode_response"
  /\ frames_in.some
  /\ Len(frames_in.val) = 3
  /\ frames_in.val[1].bytes = <<255, 65, 66>>
  /\ frames_in.val[2].bytes = <<65>>
  /\ frames_in.val[3].bytes = <<45, 45>>
  /\ result = Some(<<82, 79, 87, 58, 32, 65, 66, 32, 124, 32, 45, 45>>)

----------------------------------------------------------------------------
(* Bounds and inputs of the command decoder study *)

MaxParamLen == 4

\* opcodes: the seven of the dispatch and three it does not know
CmdOpcodes == {0, COM_QUIT, COM_INIT_DB, COM_QUERY, COM_PING, COM_STMT_PREPARE,
               COM_STMT_EXECUTE, 24, COM_STMT_CLOSE, 255}

Str_Select1 == <<83, 69, 76, 69, 67, 84, 32, 49>>
Str_mydb == <<109, 121, 100, 98>>

\* bytes after the opcode: text, text to trim, blank text, bytes that are
\* not UTF-8, statement ids of 3 and 4 bytes, headers of 8 and 9 bytes
CmdBodies ==
  { <<>>, <<32>>, <<32, 10>>, Str_Select1, Str_mydb, <<32, 65, 10>>, <<255>>,
    <<195, 169>>, <<1, 0, 0>>, <<1, 0, 0, 0>>, <<255, 255, 255, 127>>,
    <<7, 1, 0, 0, 0, 1, 0, 0>>, <<7, 1, 0, 0, 0, 1, 0, 0, 0>> }

\* bytes of the region after the 10-byte header of COM_STMT_EXECUTE:
\* NUL, 'a', the bytes of U+00E9 and of U+4E2D, and 0xFF
ParamBytes == {0, 97, 195, 169, 228, 184, 173, 255}

\* the 10-byte header of COM_STMT_EXECUTE with statement id 263
ExecuteHeader == <<COM_STMT_EXECUTE, 7, 1, 0, 0, 0, 1, 0, 0, 0>>

InitCmd ==
  /\ pc = "call"
  /\ MachineIdle
  /\ offset = 0
  /\ frames_in = None
  /\ result = None
  /\ \/ data = <<>>
     \/ \E op \in CmdOpcodes, body \in CmdBodies : data = <<op>> \o body
     \/ \E region \in SeqsUpTo(ParamBytes, MaxParamLen) : data = ExecuteHeader \o region

DecodeCommand ==
  /\ pc = "call"
  /\ result' = _decode_command(data)
  /\ pc' = "decode_command"
  /\ UNCHANGED <<packets, idx, connections, report, data, offset, frames_in>>

\* the call of line 340
ExtractParams ==
  /\ pc = "call"
  /\ Len(data) > 10
  /\ data[1] = COM_STMT_EXECUTE
  /\ result' = _extract_params(SliceFrom(data, 10))
  /\ pc' = "extract_params"
  /\ UNCHANGED <<packets, idx, connections, report, data, offset, frames_in>>

NextCmd == DecodeCommand \/ ExtractParams

SpecCmd == InitCmd /\ [][NextCmd]_vars

----------------------------------------------------------------------------
(* C12 *)

\* payload[1:] as text, trimmed
Trimmed(d) == Strip(DecodeReplace(SubSeq(d, 2, Len(d))))

\* the unsigned 32-bit little-endian integer at byte 1
U32At1(d) == d[2] + 256 * (d[3] + 256 * (d[4] + 256 * d[5]))

\* t, or t followed by a parameter list
WithOptionalParams(text, t) ==
  text = t \/ StartsWith(text, t \o <<44, 32, 112, 97, 114, 97, 109, 115, 61, 91>>)

\* the opcode table
OpcodeTable(d) ==
  IF d = <<>> THEN result = None
  ELSE CASE d[1] = 3 ->
              result = IF Trimmed(d) = <<>> THEN None ELSE Some(Trimmed(d))
         [] d[1] = 2 ->
              result = IF Trimmed(d) = <<>> THEN None
                       ELSE Some(<<85, 83, 69, 32>> \o Trimmed(d))
         [] d[1] = 22 ->
              result = IF Trimmed(d) = <<>> THEN None
                       ELSE Some(<<91, 80, 82, 69, 80, 65, 82, 69, 93, 32>> \o Trimmed(d))
         [] d[1] = 23 ->
              /\ result.some
              /\ IF Len(d) >= 10
                   THEN WithOptionalParams(result.val,
                          <<91, 69, 88, 69, 67, 85, 84, 69, 93, 32, 115, 116, 109, 116, 95,
                            105, 100, 61>> \o IntToStr(U32At1(d)))
                 ELSE result.val = <<91, 69, 88, 69, 67, 85, 84, 69, 93, 32, 40, 105, 110,
                                     99, 111, 109, 112, 108, 101, 116, 101, 41>>
         [] d[1] = 25 ->
              result = IF Len(d) >= 5
                         THEN Some(<<91, 83, 84, 77, 84, 95, 67, 76, 79, 83, 69, 93, 32, 115,
                                     116, 109, 116, 95, 105, 100, 61>> \o IntToStr(U32At1(d)))
                       ELSE None
         [] d[1] = 1 -> result = Some(<<91, 81, 85, 73, 84, 93>>)
         [] d[1] = 14 -> result = Some(<<91, 80, 73, 78, 71, 93>>)
         [] OTHER -> result = None

\* C12: the command decoder's result is the one the opcode table gives for
\* payload[0]: trimmed text for 0x03, "USE " + text for 0x02, "[PREPARE] " +
\* text for 0x16, none of them when the text is empty; "[EXECUTE] stmt_id=<id>"
\* from 10 bytes on and "[EXECUTE] (incomplete)" below; "[STMT_CLOSE]
\* stmt_id=<id>" from 5 bytes on, else nothing; "[QUIT]"; "[PING]"; nothing
\* for any other opcode and for the empty payload.
C12_OpcodeTable ==
  pc = "decode_command" =>
    /\ OpcodeTable(data)
    /\ data = <<3>> \o Str_Select1 => result = Some(Str_Select1)
    /\ data = <<2>> \o Str_mydb => result = Some(<<85, 83, 69, 32, 109, 121, 100, 98>>)
    /\ data = <<1>> => result = Some(<<91, 81, 85, 73, 84, 93>>)

C12_Witness ==
  /\ pc = "decode_command"
  /\ data = <<COM_STMT_CLOSE, 255, 255, 255, 127>>
  /\ result = Some(Str_STMT_CLOSE \o <<50, 49, 52, 55, 52, 56, 51, 54, 52, 55>>)

----------------------------------------------------------------------------
(* C14 *)

\* a run that is flushed becomes a parameter iff it has 2 characters or more
FlushRun(params, run) == IF Len(run) >= 2 THEN Append(params, run) ELSE params

\* the character of a valid 2- or 3-byte UTF-8 sequence that starts at
\* index i, with the number of bytes it takes; <<>> when there is none
MultiByteAt(d, i) ==
  LET r == Utf8Step(d, i, <<>>)
  IN IF r[1] # <<>> /\ r[2] \in {2, 3} THEN r ELSE <<(<<>>), 1>>

RECURSIVE ScanFrom(_, _, _, _)
\* the two-state scanner of the parameter heuristic from index i: run is the
\* run in progress (empty when Idle), params the parameters found so far
ScanFrom(d, i, run, params) ==
  IF i >= Len(d) THEN FlushRun(params, run)
  ELSE IF At(d, i) >= 32 /\ At(d, i) <= 126
    THEN ScanFrom(d, i + 1, Append(run, At(d, i)), params)
  ELSE IF MultiByteAt(d, i)[1] # <<>>
    THEN ScanFrom(d, i + MultiByteAt(d, i)[2], run \o MultiByteAt(d, i)[1], params)
  ELSE ScanFrom(d, i + 1, <<>>, FlushRun(params, run))

\* the parameter list of the scanner for a region
ScannerParams(region) == ScanFrom(region, 0, <<>>, <<>>)

\* C14: the parameters extracted from the bytes after the 10-byte header are
\* the qualifying runs of the two-state scanner, in scan order (continuation
\* bytes consumed with their lead byte, runs of fewer than 2 characters
\* dropped), and the text of COM_STMT_EXECUTE ends with ", params=[...]" iff
\* at least one run qualifies.
C14_ParamsAsScanner ==
  /\ pc = "extract_params" =>
       result = IF ScannerParams(SliceFrom(data, 10)) # <<>>
                  THEN Some(ScannerParams(SliceFrom(data, 10)))
                ELSE None
  /\ (pc = "decode_command" /\ Len(data) > 10 /\ data[1] = COM_STMT_EXECUTE) =>
       result.val = Str_EXECUTE \o IntToStr(U32At1(data))
                      \o IF ScannerParams(SliceFrom(data, 10)) # <<>>
                           THEN Str_Params \o Join(Str_Comma, ScannerParams(SliceFrom(data, 10)))
                                  \o Str_CloseBracket
                         ELSE <<>>

----------------------------------------------------------------------------
(* Bounds and inputs of the event study: the loop of lines 118-121 over    *)
(* the list of one connection                                              *)

MaxEntries == 2

\* frame payloads: well-formed, truncated, malformed and ambiguous ones
FormatPayloads ==
  { <<COM_QUERY>> \o Str_Select1, <<COM_QUERY, 255, 254>>, <<COM_QUERY, 32>>, <<COM_PING>>,
    <<COM_STMT_EXECUTE, 1, 0, 0>>, ExecuteHeader \o <<97, 195, 169, 97>>,
    <<COM_STMT_CLOSE, 1, 0, 0>>, <<COM_STMT_CLOSE, 1, 0, 0, 0>>, <<99>>,
    <<ERROR_PACKET>>, <<ERROR_PACKET, 20, 4, 35, 52, 50, 83, 48>>, TableNotFoundPayload,
    <<EOF_PACKET>>, <<EOF_PACKET, 0, 0, 0, 0, 0, 0, 0, 0>>,
    <<OK_PACKET, 200, 0, 0, 0, 0, 0>>, <<OK_PACKET, 254, 1, 0, 0, 0, 0>>,
    <<OK_PACKET, 200, 252, 1, 0, 0, 0>>, <<OK_PACKET, 200, 0, 0, 0, 0, 252>>,
    <<5, 65, 108, 105, 99, 101>>, <<5, 65, 108>>, <<252, 1>>, <<253, 1, 0>>, <<2, 255, 255>> }

\* an entry of a connection's list, lines 189-193
EntrySet ==
  {[timestamp |-> 1, direction |-> dir, packet |-> [length |-> Len(p), sequence |-> 0, payload |-> p]] :
     dir \in {ClientToServer, ServerToClient}, p \in FormatPayloads}

InitFormat ==
  /\ pc = "call"
  /\ MachineIdle
  /\ data = <<>>
  /\ offset = 0
  /\ result = None
  /\ \E entries \in SeqsUpTo(EntrySet, MaxEntries) : frames_in = Some(entries)

\* the loop of lines 118-121: _format_packet for each entry of the list
FormatPackets ==
  /\ pc = "call"
  /\ result' = IF \E i \in 1..Len(frames_in.val) : FormatPacketRaises(frames_in.val[i])
                 THEN Raised
               ELSE Some(EventLines(frames_in.val))
  /\ pc' = "format_packets"
  /\ UNCHANGED <<packets, idx, connections, report, data, offset, frames_in>>

NextFormat == FormatPackets

SpecFormat == InitFormat /\ [][NextFormat]_vars

----------------------------------------------------------------------------
(* C13 *)

\* the events of a list that holds the entry e only
Alone(e) == EventLines(<<e>>)

\* C13: decoding a frame payload, in either direction, never propagates a
\* failure and gives one event with a text or no event; the events of a list
\* are those each entry gives on its own, in order, so a frame that decodes
\* to nothing changes, removes or corrupts no event of another frame.
C13_LocalAndSilent ==
  pc = "format_packets" =>
    /\ result.some
    /\ \A i \in 1..Len(frames_in.val) :
         /\ ~FormatPacketRaises(frames_in.val[i])
         /\ Len(Alone(frames_in.val[i])) <= 1
         /\ \A k \in 1..Len(Alone(frames_in.val[i])) : Alone(frames_in.val[i])[k].text # <<>>
    /\ result.val = Flatten([i \in 1..Len(frames_in.val) |-> Alone(frames_in.val[i])])

C13_Witness ==
  /\ pc = "format_packets"
  /\ Len(frames_in.val) = 2
  /\ frames_in.val[1].direction = ClientToServer
  /\ frames_in.val[1].packet.payload = <<COM_STMT_CLOSE, 1, 0, 0>>
  /\ frames_in.val[2].direction = ServerToClient
  /\ frames_in.val[2].packet.payload = <<5, 65, 108, 105, 99, 101>>
  /\ result.some
  /\ Len(result.val) = 1
  /\ result.val[1].text = <<82, 79, 87, 58, 32, 65, 108, 105, 99, 101>>

----------------------------------------------------------------------------
(* The program: parse() then generate_report(), lines 91-123 and 547-556 *)

MaxPackets == 3

Str_SelectNameFromUsers ==
  <<83, 69, 76, 69, 67, 84, 32, 110, 97, 109, 101, 32, 70, 82, 79, 77, 32, 117, 115, 101, 114, 115>>
Str_Alice == <<65, 108, 105, 99, 101>>
Str_RowAlice == <<82, 79, 87, 58, 32, 65, 108, 105, 99, 101>>

MkFrame(sequence, payload) ==
  [length |-> Len(payload), sequence |-> sequence, payload |-> payload]

\* TCP payloads: one COM_QUERY frame, one row frame, a frame cut short,
\* a PING frame followed by a QUIT frame, one PING frame
QueryBytes == EncodeFrame(MkFrame(0, <<COM_QUERY>> \o Str_SelectNameFromUsers))
RowBytes == EncodeFrame(MkFrame(1, <<Len(Str_Alice)>> \o Str_Alice))
PartialBytes == <<5, 0, 0, 0, COM_QUERY>>
\* the four bytes that complete the frame PartialBytes starts
ContinuationBytes == <<83, 69, 76, 49>>
TwoFrameBytes == EncodeFrames(<<MkFrame(0, <<COM_PING>>), MkFrame(0, <<COM_QUIT>>)>>)
PingBytes == EncodeFrame(MkFrame(0, <<COM_PING>>))

Pkt(src, sport, dst, dport, payload, time) ==
  [ip |-> TRUE, src |-> src, sport |-> sport, dst |-> dst, dport |-> dport,
   payload |-> payload, time |-> time]

QueryPacket == Pkt("10.0.0.1", 40000, "10.0.0.2", mysql_port, QueryBytes, 1)
RowPacket == Pkt("10.0.0.2", mysql_port, "10.0.0.1", 40000, RowBytes, 2)
PartialPacket == Pkt("10.0.0.1", 40000, "10.0.0.2", mysql_port, PartialBytes, 3)
ContinuationPacket == Pkt("10.0.0.1", 40000, "10.0.0.2", mysql_port, ContinuationBytes, 11)
OtherPortPacket == Pkt("10.0.0.1", 40000, "10.0.0.2", 80, QueryBytes, 8)

PacketSet ==
  { QueryPacket, RowPacket, PartialPacket, ContinuationPacket, OtherPortPacket,
    Pkt("10.0.0.1", 40001, "10.0.0.2", mysql_port, TwoFrameBytes, 4),
    Pkt("10.0.0.2", mysql_port, "10.0.0.1", 40001, RowBytes, 5),
    Pkt("10.0.0.1", mysql_port, "10.0.0.2", mysql_port, PingBytes, 6),
    Pkt("10.0.0.2", mysql_port, "10.0.0.1", mysql_port, PingBytes, 7),
    Pkt("10.0.0.1", 40000, "10.0.0.2", mysql_port, <<>>, 9),
    [ip |-> FALSE, src |-> "", sport |-> 0, dst |-> "", dport |-> 0,
     payload |-> QueryBytes, time |-> 10] }

FunctionIdle ==
  /\ data = <<>>
  /\ offset = 0
  /\ frames_in = None
  /\ result = None

\* __init__, lines 81-85
Init ==
  /\ pc = "init"
  /\ packets = <<>>
  /\ idx = 1
  /\ connections = <<>>
  /\ report = <<>>
  /\ FunctionIdle

\* _load_pcap, lines 145-150: rdpcap returns the capture
LoadPcap ==
  /\ pc = "init"
  /\ \E capture \in SeqsUpTo(PacketSet, MaxPackets) :
       /\ packets' = capture
       /\ pc' = IF capture = <<>> THEN "parsed" ELSE "extract"
  /\ UNCHANGED <<idx, connections, report, data, offset, frames_in, result>>

\* _load_pcap, lines 151-153: the capture cannot be read, sys.exit(1)
LoadPcapFails ==
  /\ pc = "init"
  /\ pc' = "exit"
  /\ UNCHANGED <<packets, idx, connections, report, data, offset, frames_in, result>>

\* the bytes the splitter leaves at the end of a payload, line 221
Leftover(payload) == SliceFrom(payload, ParseEnd(payload, 0))

\* the next packet follows, in the capture, a packet of its connection and
\* direction
FollowsOwnConnection ==
  /\ idx > 1
  /\ ~Skipped(packets[idx]) /\ ~Skipped(packets[idx - 1])
  /\ ConnKey(packets[idx]) = ConnKey(packets[idx - 1])
  /\ DirectionOf(packets[idx]) = DirectionOf(packets[idx - 1])

\* lines 159-193 with the bytes left by the previous packet of the
\* connection put in front of the payload
ExtractPacketReassembling ==
  /\ pc = "extract"
  /\ idx <= Len(packets)
  /\ connections' =
       IF FollowsOwnConnection
         THEN AppendEntries(connections, ConnKey(packets[idx]),
                EntriesOf([packets[idx] EXCEPT
                             !.payload = Leftover(packets[idx - 1].payload) \o @]))
       ELSE ExtractOne(connections, packets[idx])
  /\ idx' = idx + 1
  /\ pc' = IF idx = Len(packets) THEN "parsed" ELSE "extract"
  /\ UNCHANGED <<packets, report, data, offset, frames_in, result>>
\* _extract_mysql_data, one iteration of the loop of lines 159-193
ExtractPacket ==
  /\ pc = "extract"
  /\ idx <= Len(packets)
  /\ connections' = ExtractOne(connections, packets[idx])
  /\ idx' = idx + 1
  /\ pc' = IF idx = Len(packets) THEN "parsed" ELSE "extract"
  /\ UNCHANGED <<packets, report, data, offset, frames_in, result>>

\* generate_report, lines 96-123, called by print_report or save_report
GenerateReport ==
  /\ pc = "parsed"
  /\ report' = generate_report(connections)
  /\ pc' = "done"
  /\ UNCHANGED <<packets, idx, connections, data, offset, frames_in, result>>

Next == LoadPcap \/ LoadPcapFails \/ ExtractPacket \/ GenerateReport

Spec == Init /\ [][Next]_vars

----------------------------------------------------------------------------
(* C3 *)

Range(s) == {s[i] : i \in 1..Len(s)}

\* q travels the flow of p in the opposite direction
OppositeDirections(p, q) ==
  /\ p.ip /\ q.ip
  /\ p.src = q.dst /\ p.sport = q.dport
  /\ p.dst = q.src /\ p.dport = q.sport

\* some connection's list holds every entry of both packets
SameList(p, q) ==
  \E n \in 1..Len(connections) :
    Range(EntriesOf(p)) \cup Range(EntriesOf(q)) \subseteq Range(connections[n].packets)

\* C3: two processed packets of one TCP flow, one in each direction, with at
\* least one port equal to mysql_port, get the same connection key and their
\* frames are appended to the same per-connection list.
C3_BothDirectionsOneKey ==
  \A i, j \in 1..(idx - 1) :
    (/\ OppositeDirections(packets[i], packets[j])
     /\ _is_mysql_packet(packets[i])
     /\ ~Skipped(packets[i]) /\ ~Skipped(packets[j]))
      => /\ ConnKey(packets[i]) = ConnKey(packets[j])
         /\ SameList(packets[i], packets[j])

----------------------------------------------------------------------------
(* C4 *)

\* the entries the first n packets of the capture contribute to key, in
\* capture order
ContributionsTo(key, n) ==
  Flatten([j \in 1..n |->
    IF ~Skipped(packets[j]) /\ ConnKey(packets[j]) = key
      THEN EntriesOf(packets[j]) ELSE <<>>])

ListsInCaptureOrder ==
  /\ \A n \in 1..Len(connections) :
       connections[n].packets = ContributionsTo(connections[n].key, idx - 1)
  /\ \A j \in 1..(idx - 1) :
       (~Skipped(packets[j]) /\ EntriesOf(packets[j]) # <<>>)
         => KeyIndex(connections, ConnKey(packets[j])) # 0

ListsOnlyGrow ==
  \A n \in 1..Len(connections) :
    /\ n <= Len(connections')
    /\ connections'[n].key = connections[n].key
    /\ IsPrefixOf(connections[n].packets, connections'[n].packets)

\* C4: each connection's list holds the entries of the packets processed so
\* far in capture order, the entries of one packet in frame order, and every
\* step only appends: no entry is reordered, removed, merged or modified.
C4_AppendOnlyCaptureOrder == []ListsInCaptureOrder /\ [][ListsOnlyGrow]_vars

C4_Witness ==
  /\ pc = "parsed"
  /\ Len(connections) = 2
  /\ Len(connections[1].packets) = 3
  /\ connections[1].packets[1].timestamp # connections[1].packets[3].timestamp
  /\ connections[1].packets[1].timestamp = connections[1].packets[2].timestamp

----------------------------------------------------------------------------
(* C5 *)

\* keys of the connections in the order the report prints them
ReportKeys ==
  LET lines == SelectSeq(report, LAMBDA l : l.kind = "connection")
  IN [i \in 1..Len(lines) |-> lines[i].key]

PositionIn(keys, key) == CHOOSE i \in 1..Len(keys) : keys[i] = key

\* indices of the MySQL-port packets with a non-empty payload of a connection
PacketsOf(key) ==
  {j \in 1..Len(packets) : ~Skipped(packets[j]) /\ ConnKey(packets[j]) = key}

\* those of them that hold at least one complete frame
FramePacketsOf(key) == {j \in PacketsOf(key) : EntriesOf(packets[j]) # <<>>}

Earliest(S) == CHOOSE j \in S : \A k \in S : j <= k

CaptureKeys == {ConnKey(packets[j]) : j \in {k \in 1..Len(packets) : ~Skipped(packets[k])}}

\* C5 as stated: connections are reported in the order of the first
\* MySQL-port packet with a non-empty payload of each.
C5_OrderOfFirstPacket ==
  pc = "done" =>
    \A X, Y \in Range(ReportKeys) :
      Earliest(PacketsOf(X)) < Earliest(PacketsOf(Y))
        => PositionIn(ReportKeys, X) < PositionIn(ReportKeys, Y)

\* C5 amended: the connections reported are those with a packet that yields
\* at least one frame, each once, in the order of the first such packet.
C5_OrderOfFirstFramePacket ==
  pc = "done" =>
    /\ Range(ReportKeys) = {k \in CaptureKeys : FramePacketsOf(k) # {}}
    /\ \A a, b \in 1..Len(ReportKeys) :
         a < b => Earliest(FramePacketsOf(ReportKeys[a])) < Earliest(FramePacketsOf(ReportKeys[b]))

C5_Witness ==
  /\ pc = "done"
  /\ Len(ReportKeys) = 2
  /\ Earliest(PacketsOf(ReportKeys[2])) < Earliest(PacketsOf(ReportKeys[1]))

----------------------------------------------------------------------------
(* C6 *)

\* the packets of the capture that the loop does not skip
Relevant == SelectSeq(packets, LAMBDA p : ~Skipped(p))

ReportEvents == SelectSeq(report, LAMBDA l : l.kind = "event")

\* C6: a capture of one connection with a client packet holding the frame
\* 0x03 "SELECT name FROM users" and then a server packet holding the frame
\* of the length-encoded string "Alice" is reported as exactly two events, the
\* Command "SELECT name FROM users" and then the Response "ROW: Alice".
C6_EndToEnd ==
  (pc = "done" /\ Relevant = <<QueryPacket, RowPacket>>) =>
    /\ Len(ReportKeys) = 1
    /\ ReportEvents =
         <<[kind |-> "event", timestamp |-> QueryPacket.time, direction |-> ClientToServer,
            label |-> "SQL", text |-> Str_SelectNameFromUsers],
           [kind |-> "event", timestamp |-> RowPacket.time, direction |-> ServerToClient,
            label |-> "Response", text |-> Str_RowAlice]>>

C6_Witness ==
  /\ pc = "done"
  /\ packets = <<QueryPacket, RowPacket>>
  /\ Len(ReportEvents) = 2
  /\ ReportEvents[2].text = Str_RowAlice

----------------------------------------------------------------------------
(* C18 *)

RECURSIVE StraddlingFrames(_, _, _)
\* the frames of buffer d, from pos on, whose bytes lie on both sides of
\* index cut
StraddlingFrames(d, pos, cut) ==
  IF pos + 4 > Len(d) THEN {}
  ELSE LET length == d[pos + 1] + 256 * d[pos + 2] + 65536 * d[pos + 3]
       IN IF length = 0 \/ pos + 4 + length > Len(d) THEN {}
          ELSE (IF pos < cut /\ cut < pos + 4 + length
                  THEN {[length |-> length, sequence |-> d[pos + 4],
                         payload |-> SubSeq(d, pos + 5, pos + 4 + length)]}
                ELSE {})
                 \cup StraddlingFrames(d, pos + 4 + length, cut)

\* packets i < j are consecutive packets of one connection and direction
ConsecutiveOfConnection(i, j) ==
  /\ i < j
  /\ ~Skipped(packets[i]) /\ ~Skipped(packets[j])
  /\ ConnKey(packets[i]) = ConnKey(packets[j])
  /\ packets[i].dport = packets[j].dport
  /\ \A k \in (i + 1)..(j - 1) :
       Skipped(packets[k]) \/ ConnKey(packets[k]) # ConnKey(packets[i])

\* the frames split between the end of packet i and packet j
SplitFrames(i, j) ==
  StraddlingFrames(Leftover(packets[i].payload) \o packets[j].payload, 0,
                   Len(Leftover(packets[i].payload)))

\* the frames in the list of a key
FramesOf(key) ==
  IF KeyIndex(connections, key) = 0 THEN {}
  ELSE {connections[KeyIndex(connections, key)].packets[k].packet :
          k \in 1..Len(connections[KeyIndex(connections, key)].packets)}

\* C18: the entries of a connection's list are the frames each processed
\* packet yields from its own payload, and a frame whose bytes are split
\* across two consecutive packets of a connection is in no state part of
\* that connection's list.
C18_NoReassembly ==
  /\ \A n \in 1..Len(connections) :
       \A k \in 1..Len(connections[n].packets) :
         \E j \in 1..(idx - 1) :
           /\ packets[j].time = connections[n].packets[k].timestamp
           /\ \E f \in 1..Len(_parse_mysql_packets(packets[j].payload)) :
                _parse_mysql_packets(packets[j].payload)[f] = connections[n].packets[k].packet
  /\ \A i, j \in 1..(idx - 1) :
       ConsecutiveOfConnection(i, j) =>
         SplitFrames(i, j) \cap FramesOf(ConnKey(packets[i])) = {}

C18_Witness ==
  /\ pc = "parsed"
  /\ packets = <<QueryPacket, PartialPacket, ContinuationPacket>>
  /\ SplitFrames(2, 3) = {[length |-> 5, sequence |-> 0, payload |-> <<3, 83, 69, 76, 49>>]}
  /\ Len(connections) = 1
  /\ Len(connections[1].packets) = 1

----------------------------------------------------------------------------
(* C19 *)

\* the event one entry gives: the command decoder for an entry tagged
\* ClientToServer, the response decoder for any other
EventOfEntry(e) ==
  LET decoded == IF e.direction = "Client->Server" THEN _decode_command(e.packet.payload)
                 ELSE _decode_response(e.packet.payload)
  IN IF decoded.some /\ decoded.val # <<>>
       THEN <<[kind |-> "event", timestamp |-> e.timestamp, direction |-> e.direction,
               label |-> IF e.direction = "Client->Server" THEN "SQL" ELSE "Response",
               text |-> decoded.val]>>
     ELSE <<>>

\* the events of all lists, connection after connection
EventsOfEntries ==
  Flatten([n \in 1..Len(connections) |->
    Flatten([k \in 1..Len(connections[n].packets) |-> EventOfEntry(connections[n].packets[k])])])

\* C19: every stored entry comes from a processed packet that has the IP
\* and TCP layers, source or destination port 3306 and a non-empty payload,
\* and is tagged ClientToServer iff that packet's destination port is 3306,
\* ServerToClient otherwise; the report decodes the entries tagged
\* ClientToServer with the command decoder and the others with the
\* response decoder.
C19_DirectionTags ==
  /\ \A n \in 1..Len(connections) :
       \A k \in 1..Len(connections[n].packets) :
         /\ \E j \in 1..(idx - 1) : packets[j].time = connections[n].packets[k].timestamp
         /\ \A j \in 1..Len(packets) :
              packets[j].time = connections[n].packets[k].timestamp =>
                /\ packets[j].ip
                /\ packets[j].sport = 3306 \/ packets[j].dport = 3306
                /\ packets[j].payload # <<>>
                /\ connections[n].packets[k].direction =
                     IF packets[j].dport = 3306 THEN "Client->Server" ELSE "Server->Client"
  /\ pc = "done" => ReportEvents = EventsOfEntries

C19_Witness ==
  /\ pc = "done"
  /\ packets = <<QueryPacket, OtherPortPacket, RowPacket>>
  /\ Len(connections) = 1
  /\ Len(connections[1].packets) = 2
  /\ connections[1].packets[1].direction = ClientToServer
  /\ connections[1].packets[2].direction = ServerToClient
  /\ Len(ReportEvents) = 2
  /\ ReportEvents[1].label = "SQL"
  /\ ReportEvents[2].label = "Response"

----------------------------------------------------------------------------
(* The loops, one iteration at a time: the while loop of the frame         *)
(* splitter (lines 215-229) and that of the row heuristic (lines 482-496). *)
(* data is the buffer, offset is pos, result holds the loop's other local  *)
(* variables and frames_in the values of pos at the start of each          *)
(* iteration so far.                                                       *)

\* buffers for the splitter loop: framed sequences and cut or empty frames
SplitLoopBuffers ==
  {EncodeFrames(fs) : fs \in SeqsUpTo(FrameSet, MaxFrames)}
    \cup {PartialBytes, TwoFrameBytes \o PartialBytes, <<0, 0, 0, 0, 1, 0, 0, 0, 14>>,
          <<1, 0, 0>>, PingBytes \o <<0, 0, 0, 0>>}

\* payloads for the row loop: encoded fields and strings cut short
RowLoopPayloads ==
  {EncodeFields(fs) : fs \in SeqsUpTo(FieldSet, MaxFields)}
    \cup {<<5, 65>>, <<252, 1>>, <<0, 0, 5>>, <<1, 65, 251, 255>>, <<254, 1, 0, 0, 0, 0, 0, 0, 0, 65>>}

InitLoops ==
  /\ MachineIdle
  /\ offset = 0
  /\ frames_in = Some(<<>>)
  /\ \/ pc = "split_loop" /\ data \in SplitLoopBuffers /\ result = Some(<<>>)
     \/ /\ pc = "row_loop"
        /\ data \in RowLoopPayloads
        /\ result = Some([row |-> <<>>, parsed |-> 0])

\* lines 215-229, an iteration that appends a frame
SplitStep ==
  /\ pc = "split_loop"
  /\ HeaderFits(data, offset)
  /\ ~FrameStops(data, offset, FrameLength(data, offset))
  /\ result' = Some(Append(result.val,
                   [length |-> FrameLength(data, offset), sequence |-> At(data, offset + 3),
                    payload |-> Slice(data, offset + 4, offset + 4 + FrameLength(data, offset))]))
  /\ offset' = offset + 4 + FrameLength(data, offset)
  /\ frames_in' = Some(Append(frames_in.val, offset))
  /\ UNCHANGED <<pc, packets, idx, connections, report, data>>

\* lines 215-221, the iteration that breaks
SplitBreak ==
  /\ pc = "split_loop"
  /\ HeaderFits(data, offset)
  /\ FrameStops(data, offset, FrameLength(data, offset))
  /\ frames_in' = Some(Append(frames_in.val, offset))
  /\ pc' = "split_end"
  /\ UNCHANGED <<packets, idx, connections, report, data, offset, result>>

\* line 215, the loop condition fails
SplitExit ==
  /\ pc = "split_loop"
  /\ ~HeaderFits(data, offset)
  /\ pc' = "split_end"
  /\ UNCHANGED <<packets, idx, connections, report, data, offset, frames_in, result>>

\* lines 483-487, an iteration on the NULL marker
RowNullStep ==
  /\ pc = "row_loop"
  /\ offset < Len(data)
  /\ At(data, offset) = NULL_VALUE
  /\ result' = Some([row |-> Append(result.val.row, Str_NULL), parsed |-> result.val.parsed + 1])
  /\ offset' = offset + 1
  /\ frames_in' = Some(Append(frames_in.val, offset))
  /\ UNCHANGED <<pc, packets, idx, connections, report, data>>

\* lines 489-496, an iteration that reads a string
RowStringStep ==
  /\ pc = "row_loop"
  /\ offset < Len(data)
  /\ At(data, offset) # NULL_VALUE
  /\ LET r == _read_length_encoded_string(data, offset)
     IN /\ r[1].some
        /\ r[2] > offset
        /\ result' = IF 0 < Len(r[1].val) /\ Len(r[1].val) < 10000
                       THEN Some([row |-> Append(result.val.row, r[1].val),
                                  parsed |-> result.val.parsed + 1])
                     ELSE result
        /\ offset' = r[2]
  /\ frames_in' = Some(Append(frames_in.val, offset))
  /\ UNCHANGED <<pc, packets, idx, connections, report, data>>

\* lines 489-491, the iteration that breaks
RowBreak ==
  /\ pc = "row_loop"
  /\ offset < Len(data)
  /\ At(data, offset) # NULL_VALUE
  /\ LET r == _read_length_encoded_string(data, offset)
     IN ~r[1].some \/ r[2] <= offset
  /\ frames_in' = Some(Append(frames_in.val, offset))
  /\ pc' = "row_end"
  /\ UNCHANGED <<packets, idx, connections, report, data, offset, result>>

\* line 482, the loop condition fails
RowExit ==
  /\ pc = "row_loop"
  /\ ~(offset < Len(data))
  /\ pc' = "row_end"
  /\ UNCHANGED <<packets, idx, connections, report, data, offset, frames_in, result>>

NextLoops ==
  SplitStep \/ SplitBreak \/ SplitExit \/ RowNullStep \/ RowStringStep \/ RowBreak \/ RowExit

NextLive == Next \/ NextLoops

\* the program and the loops; the parser is one thread that nothing
\* suspends, so a loop that can take a step takes it
\* the guard of ExtractPacket, which always changes idx
ExtractEnabled == pc = "extract" /\ idx <= Len(packets)

\* weak fairness of ExtractPacket, with ENABLED written as the guard
ExtractFair == []<>(~ExtractEnabled) \/ []<><<ExtractPacket>>_vars

SpecLive ==
  (Init \/ InitLoops) /\ [][NextLive]_vars /\ ExtractFair /\ WF_vars(NextLoops)

----------------------------------------------------------------------------
(* C20 *)

\* an iteration of the splitter loop that does not stop adds 5 or more to
\* the offset, one of the row loop adds 1 or more
LoopsAdvance ==
  /\ (pc = "split_loop" /\ pc' = "split_loop") => offset' >= offset + 5
  /\ (pc = "row_loop" /\ pc' = "row_loop") => offset' > offset

\* no loop has run more iterations than the buffer has bytes, and where a
\* loop has ended its variables are those the function computes
LoopsBounded ==
  /\ pc \in {"split_loop", "split_end", "row_loop", "row_end"} =>
       Len(frames_in.val) <= Len(data)
  /\ pc = "split_end" => result.val = _parse_mysql_packets(data)
  /\ pc = "row_end" =>
       /\ result.val.row = RowLoop(data, 0, <<>>, 0).row
       /\ offset = RowLoop(data, 0, <<>>, 0).pos

\* C20: every iteration of the splitter loop stops or advances the offset
\* by at least 5, every iteration of the row loop stops or advances it,
\* neither loop runs more than len(buffer) iterations, both end, and the
\* loop over the capture reaches the end of every capture it was given.
C20_Terminates ==
  /\ [][LoopsAdvance]_vars
  /\ []LoopsBounded
  /\ (pc = "split_loop") ~> (pc = "split_end")
  /\ (pc = "row_loop") ~> (pc = "row_end")
  /\ (pc = "extract") ~> (pc = "parsed" /\ idx = Len(packets) + 1)

C20_Witness ==
  /\ pc = "split_end"
  /\ data = TwoFrameBytes \o PartialBytes
  /\ frames_in.val = <<0, 5, 10>>
  /\ Len(result.val) = 2

----------------------------------------------------------------------------
(* C21 *)

\* the texts of the payload's fields, in payload order
PayloadTexts == [k \in 1..Len(frames_in.val) |-> FieldText(frames_in.val[k])]

\* the payload positions (1-based) of the fields whose text is not empty
NonEmptyPositions ==
  SelectSeq([k \in 1..Len(frames_in.val) |-> k], LAMBDA k : PayloadTexts[k] # <<>>)

\* the loop's final row, pos and parsed for the payload
RowLoopEnd == RowLoop(data, 0, <<>>, 0)

\* C21: the row heuristic leaves every zero-length string out of the row
\* and out of the count of parsed fields but moves the offset past it, so an
\* accepted row is non-empty and holds non-empty values only, its i-th value
\* being the i-th non-empty field of the payload: at its own position when
\* no earlier field is empty, at a lower one when an earlier field is empty.
C21_EmptyStringsSkipped ==
  pc = "try_parse_row" =>
    /\ result.some =>
         /\ result.val # <<>>
         /\ \A i \in 1..Len(result.val) : result.val[i] # <<>>
    /\ frames_in.some =>
         /\ RowLoopEnd.pos = Len(data)
         /\ RowLoopEnd.parsed = Len(NonEmptyPositions)
         /\ Len(RowLoopEnd.row) = Len(NonEmptyPositions)
         /\ \A i \in 1..Len(NonEmptyPositions) :
              /\ RowLoopEnd.row[i] = PayloadTexts[NonEmptyPositions[i]]
              /\ i <= NonEmptyPositions[i]
              /\ i < NonEmptyPositions[i] <=>
                   \E k \in 1..(NonEmptyPositions[i] - 1) : PayloadTexts[k] = <<>>
         /\ result = IF NonEmptyPositions = <<>> THEN None ELSE Some(RowLoopEnd.row)

\* the payload "", "A", NULL gives the row "A", "NULL": the second and
\* third fields of the payload are the first and second values of the row
C21_Witness ==
  /\ pc = "try_parse_row"
  /\ data = <<0, 1, 65, NULL_VALUE>>
  /\ frames_in.some
  /\ NonEmptyPositions = <<2, 3>>
  /\ RowLoopEnd.pos = 4
  /\ RowLoopEnd.parsed = 2
  /\ result = Some(<<<<65>>, Str_NULL>>)

====
